---- MODULE Spec2Model ----
(***************************************************************************)
(* A model of highway_env/envs/highway_env.py: the scenario builder        *)
(* (_reset, _create_road, _create_vehicles and the Fast variant's          *)
(* override), the episode lifecycle (_is_terminated, _is_truncated) and    *)
(* the reward evaluator (_rewards, _reward).                               *)
(*                                                                         *)
(* Two specifications share the variables:                                 *)
(*   Spec        the environment's life: Reset and Step;                   *)
(*   RewardSpec  the reward evaluator applied to bounded inputs.           *)
(***************************************************************************)
EXTENDS Integers, Sequences, FiniteSets, TLC

VARIABLES
    config,                \* self.config, fixed at construction
    phase,                 \* "constructed" | "reset" | "stepped" | "failed"
    episode,               \* number of resets started so far
    road_vehicles,         \* self.road.vehicles
    controlled_vehicles,   \* self.controlled_vehicles
    collisions_disabled,   \* the vehicle objects whose check_collisions is False
    rng_log,               \* the calls that consumed self.np_random in the last reset
    time,                  \* self.time
    crashed,               \* self.vehicle.crashed
    on_road,               \* self.vehicle.on_road
    terminated,            \* what _is_terminated returned at the last step
    truncated,             \* what _is_truncated returned at the last step
    obs,                   \* the reward evaluator's inputs (ego speed, neighbours, action)
    outcome                \* what _reward produced on them

vars == <<config, phase, episode, road_vehicles, controlled_vehicles,
          collisions_disabled, rng_log, time, crashed, on_road,
          terminated, truncated, obs, outcome>>

lifecycle_vars == <<phase, episode, road_vehicles, controlled_vehicles,
                    collisions_disabled, rng_log, time, crashed, on_road,
                    terminated, truncated>>

-----------------------------------------------------------------------------
(* Bounds of the model *)

MaxVehicles == 3
MaxControlled == 3
MaxDuration == 3
MaxSteps == 5
MaxResets == 2

-----------------------------------------------------------------------------
(* Floating-point values: exact rationals n/d (d > 0, lowest terms), and   *)
(* NaN, written 0/0.                                                       *)

Abs(x) == IF x < 0 THEN -x ELSE x

RECURSIVE GCD(_, _)
GCD(a, b) == IF b = 0 THEN a ELSE GCD(b, a % b)

Rat(n, d) ==
    LET g == GCD(Abs(n), Abs(d))
        s == IF d < 0 THEN -1 ELSE 1
    IN  [n |-> (s * n) \div g, d |-> (s * d) \div g]

Num(i) == [n |-> i, d |-> 1]
NaN == [n |-> 0, d |-> 0]
IsNaN(a) == a.d = 0
IsZero(a) == a.d # 0 /\ a.n = 0

FAdd(a, b) == IF IsNaN(a) \/ IsNaN(b) THEN NaN ELSE Rat(a.n * b.d + b.n * a.d, a.d * b.d)
FSub(a, b) == IF IsNaN(a) \/ IsNaN(b) THEN NaN ELSE Rat(a.n * b.d - b.n * a.d, a.d * b.d)
FMul(a, b) == IF IsNaN(a) \/ IsNaN(b) THEN NaN ELSE Rat(a.n * b.n, a.d * b.d)
\* a / b for b # 0; a zero divisor is decided where the division is made
FDiv(a, b) == IF IsNaN(a) \/ IsNaN(b) THEN NaN ELSE Rat(a.n * b.d, a.d * b.n)
\* comparisons with NaN are false
FLe(a, b) == ~IsNaN(a) /\ ~IsNaN(b) /\ a.n * b.d <= b.n * a.d
FGt(a, b) == ~IsNaN(a) /\ ~IsNaN(b) /\ a.n * b.d > b.n * a.d
FAbs(a) == IF IsNaN(a) THEN NaN ELSE [n |-> Abs(a.n), d |-> a.d]
\* float(b) of a bool
FBool(b) == IF b THEN Num(1) ELSE Num(0)
\* np.clip(a, lo, hi): NaN stays NaN
Clip(a, lo, hi) ==
    IF IsNaN(a) THEN NaN
    ELSE IF FLe(a, lo) THEN lo
    ELSE IF FLe(hi, a) THEN hi
    ELSE a

\* utils.lmap(v, x, y): y[0] + (v - x[0]) * (y[1] - y[0]) / (x[1] - x[0])
lmap(v, x, y) ==
    FAdd(y[1], FDiv(FMul(FSub(v, x[1]), FSub(y[2], y[1])), FSub(x[2], x[1])))

-----------------------------------------------------------------------------
(* Configuration *)

\* HighwayEnv.default_config: the reward weights, ranges and flags. In the
\* dict literal "collision_reward" is given twice; the later -50 wins.
default_config ==
    [ vehicles_count        |-> 50,
      controlled_vehicles   |-> 1,
      duration              |-> 40,
      offroad_terminal      |-> FALSE,
      fast                  |-> FALSE,
      normalize_reward      |-> TRUE,
      collision_reward      |-> Num(-50),
      right_lane_reward     |-> Rat(1, 10),
      high_speed_reward     |-> Rat(4, 10),
      reward_speed_range    |-> <<Num(-40), Num(40)>>,
      speed_reward          |-> Num(25),
      safe_distance_reward  |-> Num(5),
      on_road_reward        |-> Num(20),
      front_distance_range  |-> <<Num(0), Num(30)>>,
      rear_distance_range   |-> <<Num(0), Num(30)>>,
      torque_reward         |-> Num(0) ]

\* The configurations of the scenario builder and the lifecycle
ScenarioConfigs ==
    { [default_config EXCEPT !.vehicles_count = vc, !.controlled_vehicles = cv,
                             !.duration = du, !.offroad_terminal = ot, !.fast = fa] :
        vc \in 0..MaxVehicles, cv \in 0..MaxControlled, du \in 1..MaxDuration,
        ot \in BOOLEAN, fa \in BOOLEAN }

-----------------------------------------------------------------------------
(* Scenario builder *)

\* A vehicle object: its identity (episode, creation index) and its class
NewVehicle(ep, idx, cls, g) == [ep |-> ep, idx |-> idx, cls |-> cls, group |-> g]

Range(s) == {s[i] : i \in DOMAIN s}

\* utils.near_split(x, num_bins): [q + 1] * r + [q] * (num_bins - r); a split
\* into no bins is invalid
near_split(x, num_bins) ==
    IF num_bins >= 1
    THEN [ok |-> TRUE,
          bins |-> [i \in 1..num_bins |->
                      IF i <= x % num_bins THEN (x \div num_bins) + 1 ELSE x \div num_bins]]
    ELSE [ok |-> FALSE, bins |-> <<>>]

\* _create_road: a new Road, whose vehicle list is empty
_create_road(env) == [env EXCEPT !.road_vehicles = <<>>]

\* line 87: self.controlled_vehicles = []
ClearControlled_Kept(env) == env

ClearControlled(env) == [env EXCEPT !.controlled_vehicles = <<>>]

\* lines 99-102: for _ in range(others): create_random, randomize_behavior, append
RECURSIVE CreateOthers(_, _, _, _)
CreateOthers(env, ep, g, k) ==
    IF k = 0 THEN env
    ELSE LET v == NewVehicle(ep, env.created + 1, "other", g)
         IN  CreateOthers(
                 [env EXCEPT !.created = @ + 1,
                             !.road_vehicles = Append(@, v),
                             !.rng_log = @ \o << <<"create_random", v>>,
                                                 <<"randomize_behavior", v>> >>],
                 ep, g, k - 1)

\* lines 89-97: the group's controlled vehicle
CreateEgo(env, ep, g) ==
    LET v == NewVehicle(ep, env.created + 1, "controlled", g)
    IN  [env EXCEPT !.created = @ + 1,
                    !.controlled_vehicles = Append(@, v),
                    !.road_vehicles = Append(@, v),
                    !.rng_log = Append(@, <<"create_random", v>>)]

\* All the controlled vehicles first, then the traffic of each group
RECURSIVE EgosFrom(_, _, _, _)
EgosFrom(env, ep, bins, g) ==
    IF g > Len(bins) THEN env ELSE EgosFrom(CreateEgo(env, ep, g), ep, bins, g + 1)

RECURSIVE OthersFrom(_, _, _, _)
OthersFrom(env, ep, bins, g) ==
    IF g > Len(bins) THEN env
    ELSE OthersFrom(CreateOthers(env, ep, g, bins[g]), ep, bins, g + 1)

CreateGroups_EgosFirst(env, ep, bins, g) ==
    OthersFrom(EgosFrom(env, ep, bins, g), ep, bins, g)

\* lines 88-102: for others in other_per_controlled
RECURSIVE CreateGroupsFrom(_, _, _, _)
CreateGroupsFrom(env, ep, bins, g) ==
    IF g > Len(bins) THEN env
    ELSE CreateGroupsFrom(CreateOthers(CreateEgo(env, ep, g), ep, g, bins[g]),
                          ep, bins, g + 1)

CreateGroups(env, ep, bins, g) == CreateGroupsFrom(env, ep, bins, g)

\* An invalid split taken for an empty list of groups
_create_vehicles_EmptyOnInvalid(env, cfg, ep) ==
    LET other_per_controlled == near_split(cfg.vehicles_count, cfg.controlled_vehicles)
    IN  CreateGroups(ClearControlled(env), ep, other_per_controlled.bins, 1)

\* HighwayEnv._create_vehicles
_create_vehicles(env, cfg, ep) ==
    LET other_per_controlled == near_split(cfg.vehicles_count, cfg.controlled_vehicles)
    IN  IF ~other_per_controlled.ok
        THEN [env EXCEPT !.raised = TRUE]
        ELSE CreateGroups(ClearControlled(env), ep, other_per_controlled.bins, 1)

\* Collision checks disabled for every vehicle of the road
Fast_create_vehicles_All(env, cfg, ep) ==
    LET e == _create_vehicles(env, cfg, ep)
    IN  IF e.raised THEN e
        ELSE [e EXCEPT !.collisions_disabled = @ \cup Range(e.road_vehicles)]

\* HighwayEnvFast._create_vehicles
Fast_create_vehicles(env, cfg, ep) ==
    LET e == _create_vehicles(env, cfg, ep)
    IN  IF e.raised THEN e
        ELSE [e EXCEPT !.collisions_disabled =
                 @ \cup {v \in Range(e.road_vehicles) : v \notin Range(e.controlled_vehicles)}]

\* HighwayEnv._reset, with the variant's _create_vehicles
_reset(env, cfg, ep) ==
    IF cfg.fast THEN Fast_create_vehicles(_create_road(env), cfg, ep)
    ELSE _create_vehicles(_create_road(env), cfg, ep)

\* vehicle.check_collisions, True for a vehicle as created
check_collisions(v) == v \notin collisions_disabled

-----------------------------------------------------------------------------
(* Episode lifecycle *)

\* Terminates when off the road whatever offroad_terminal says
_is_terminated_AnyOffroad(cr, onr, cfg) == cr \/ ~onr

\* HighwayEnv._is_terminated: crashed or (offroad_terminal and not on_road)
_is_terminated(cr, onr, cfg) ==
    IF cr THEN TRUE
    ELSE IF ~cfg.offroad_terminal THEN FALSE
    ELSE ~onr

\* Strictly after the time limit
_is_truncated_Strict(t, cfg) == t > cfg.duration

\* HighwayEnv._is_truncated
_is_truncated(t, cfg) == t >= cfg.duration

-----------------------------------------------------------------------------
(* The environment's life *)

NoObs == [speed |-> Num(0)]
NoOutcome == [kind |-> "none"]

Init ==
    /\ config \in ScenarioConfigs
    /\ phase = "constructed"
    /\ episode = 0
    /\ road_vehicles = <<>>
    /\ controlled_vehicles = <<>>
    /\ collisions_disabled = {}
    /\ rng_log = <<>>
    /\ time = 0
    /\ crashed = FALSE
    /\ on_road = TRUE
    /\ terminated = FALSE
    /\ truncated = FALSE
    /\ obs = NoObs
    /\ outcome = NoOutcome

\* reset(): time back to 0, then _reset(); an exception leaves what was done
Reset ==
    /\ episode < MaxResets
    /\ LET ep == episode + 1
           env == _reset([road_vehicles |-> road_vehicles,
                          controlled_vehicles |-> controlled_vehicles,
                          collisions_disabled |-> collisions_disabled,
                          rng_log |-> <<>>,
                          created |-> 0,
                          raised |-> FALSE], config, ep)
       IN  /\ episode' = ep
           /\ road_vehicles' = env.road_vehicles
           /\ controlled_vehicles' = env.controlled_vehicles
           /\ collisions_disabled' = env.collisions_disabled
                                       \cap (Range(env.road_vehicles)
                                             \cup Range(env.controlled_vehicles))
           /\ rng_log' = env.rng_log
           /\ phase' = IF env.raised THEN "failed" ELSE "reset"
    /\ time' = 0
    /\ crashed' = FALSE
    /\ on_road' = TRUE
    /\ terminated' = FALSE
    /\ truncated' = FALSE
    /\ UNCHANGED <<config, obs, outcome>>

\* step(): the simulation advances one policy step, then the two checks
Step ==
    /\ phase \in {"reset", "stepped"}
    /\ time < MaxSteps
    /\ time' = time + 1
    /\ crashed' \in BOOLEAN
    /\ on_road' \in BOOLEAN
    /\ terminated' = _is_terminated(crashed', on_road', config)
    /\ truncated' = _is_truncated(time', config)
    /\ phase' = "stepped"
    /\ UNCHANGED <<config, episode, road_vehicles, controlled_vehicles,
                   collisions_disabled, rng_log, obs, outcome>>

Next == Reset \/ Step

Spec == Init /\ [][Next]_vars

-----------------------------------------------------------------------------
(* Reward evaluator *)

minimum_safe_distance == 30
ACCELERATION_RANGE == <<Num(-5), Num(5)>>
vehicle_mass == 1458
rolling_resistance_coefficient == Rat(12, 1000)
gravity == Rat(981, 100)
wheel_radius == Rat(33, 100)
wheel_mass == 20

\* The breakdown's terms, in the order of the returned dict
RewardNames ==
    <<"speed_reward", "collision_reward", "safe_distance_reward",
      "on_road_reward", "torque_reward">>

\* vehicle.lane_distance_to(other): the signed gap along the lane, and no
\* number (NaN) when there is no such neighbour
lane_distance_to(other) == IF other.present THEN other.distance ELSE NaN

\* lines 129-138: the safe-distance term before its clip
safe_distance_of(o, cfg) ==
    LET front_distance0 == lane_distance_to(o.front)
        rear_distance0  == lane_distance_to(o.rear)
        front_distance1 == IF FGt(front_distance0, Num(minimum_safe_distance))
                           THEN Num(minimum_safe_distance) ELSE front_distance0
        rear_distance1  == FAbs(rear_distance0)
        front_distance  == lmap(front_distance1, cfg.front_distance_range,
                                <<Num(0), Rat(1, 2)>>)
        rear_distance   == lmap(rear_distance1, cfg.rear_distance_range,
                                <<Num(0), Rat(1, 2)>>)
    IN  [front |-> front_distance, rear |-> rear_distance,
         safe_distance |-> FAdd(front_distance, rear_distance)]

\* lines 142-166: the torque term before its clip. At speed 0 the division
\* angular_momentum / angular_velocity is 0.0 / 0.0: ZeroDivisionError on
\* Python numbers, nan on numpy ones.
total_torque_of(o) ==
    LET acceleration == lmap(o.action0, <<Num(0), Num(1)>>, ACCELERATION_RANGE)
        normal_force == FMul(Num(vehicle_mass), gravity)
        rolling_resistance == FMul(rolling_resistance_coefficient, normal_force)
        load_torque == FMul(rolling_resistance, wheel_radius)
        angular_momentum == FMul(FMul(Num(wheel_mass), o.speed), wheel_radius)
        angular_velocity == FDiv(o.speed, wheel_radius)
        angular_acceleration == FDiv(acceleration, wheel_radius)
    IN  IF IsZero(angular_velocity) /\ ~o.numpy_speed
        THEN [raised |-> TRUE, total_torque |-> NaN]
        ELSE LET moment_of_inertia ==
                     IF IsZero(angular_velocity) THEN NaN
                     ELSE FDiv(angular_momentum, angular_velocity)
                 acceleration_torque == FMul(moment_of_inertia, angular_acceleration)
             IN  [raised |-> FALSE,
                  total_torque |-> FAdd(acceleration_torque, load_torque)]

\* HighwayEnv._rewards
_rewards(o, cr, onr, cfg) ==
    LET scaled_speed == lmap(o.speed, cfg.reward_speed_range, <<Num(0), Num(1)>>)
        safe == safe_distance_of(o, cfg)
        torque == total_torque_of(o)
    IN  [raised |-> torque.raised,
         rewards |->
           [speed_reward         |-> Clip(scaled_speed, Num(0), Num(1)),
            collision_reward     |-> FBool(cr),
            safe_distance_reward |-> Clip(safe.safe_distance, Num(0), Num(1)),
            on_road_reward       |-> FBool(onr),
            torque_reward        |-> Clip(torque.total_torque, Num(0), Num(1))]]

\* line 111: sum(self.config.get(name, 0) * reward for name, reward in rewards.items())
RECURSIVE WeightedSumFrom(_, _, _, _)
WeightedSumFrom(cfg, rewards, acc, i) ==
    IF i > Len(RewardNames) THEN acc
    ELSE WeightedSumFrom(cfg, rewards,
                         FAdd(acc, FMul(cfg[RewardNames[i]], rewards[RewardNames[i]])),
                         i + 1)

WeightedSum(cfg, rewards) == WeightedSumFrom(cfg, rewards, Num(0), 1)

\* lines 112-116: the rescaling when normalize_reward is set
Normalize(reward, cfg) ==
    IF cfg.normalize_reward
    THEN lmap(reward,
              <<cfg.collision_reward,
                FAdd(cfg.high_speed_reward, cfg.right_lane_reward)>>,
              <<Num(0), Num(1)>>)
    ELSE reward

\* HighwayEnv._reward
_reward(o, cr, onr, cfg) ==
    LET r == _rewards(o, cr, onr, cfg)
    IN  IF r.raised
        THEN [kind |-> "raised", exception |-> "ZeroDivisionError"]
        ELSE [kind |-> "returned",
              rewards |-> r.rewards,
              reward |-> Normalize(WeightedSum(cfg, r.rewards), cfg)]

-----------------------------------------------------------------------------
(* The reward evaluator on bounded inputs *)

Speeds == {Num(-50), Num(0), Num(25), Num(40)}
Gaps == {0, 15, 30, 60}
Actions0 == {Num(0), Rat(1, 2), Num(1)}

Absent == [present |-> FALSE, distance |-> Num(0)]
Fronts == {Absent} \cup {[present |-> TRUE, distance |-> Num(g)] : g \in Gaps}
Rears == {Absent} \cup {[present |-> TRUE, distance |-> Num(-g)] : g \in Gaps}

Observations ==
    [speed : Speeds, numpy_speed : BOOLEAN, front : Fronts, rear : Rears,
     action0 : Actions0]

\* The default configuration, with and without normalization, and one with
\* other weights (the speed term disabled, the torque term enabled)
RewardConfigs ==
    { default_config,
      [default_config EXCEPT !.normalize_reward = FALSE],
      [default_config EXCEPT !.normalize_reward = FALSE,
                             !.speed_reward = Num(0),
                             !.torque_reward = Num(1)] }

RewardInit ==
    /\ config \in RewardConfigs
    /\ phase = "constructed"
    /\ episode = 0
    /\ road_vehicles = <<>>
    /\ controlled_vehicles = <<>>
    /\ collisions_disabled = {}
    /\ rng_log = <<>>
    /\ time = 0
    /\ crashed \in BOOLEAN
    /\ on_road \in BOOLEAN
    /\ terminated = FALSE
    /\ truncated = FALSE
    /\ obs \in Observations
    /\ outcome = NoOutcome

\* _reward(action) on the current ego, neighbours and action
Evaluate ==
    /\ outcome.kind = "none"
    /\ outcome' = _reward(obs, crashed, on_road, config)
    /\ UNCHANGED <<config, obs>>
    /\ UNCHANGED lifecycle_vars

RewardNext == Evaluate

RewardSpec == RewardInit /\ [][RewardNext]_vars

-----------------------------------------------------------------------------
(* Properties of the lifecycle and of the scenario builder *)

HasReset == phase \in {"reset", "stepped"}

\* C1: at every step _is_terminated is true exactly when the ego is crashed,
\* or offroad_terminal is set and the ego is off the road.
C1_Terminated ==
    phase = "stepped" =>
        (terminated <=> (crashed \/ (config.offroad_terminal /\ ~on_road)))

C1_Witness ==
    /\ phase = "stepped"
    /\ ~crashed /\ ~on_road /\ ~config.offroad_terminal
    /\ ~terminated

\* C2: at every step _is_truncated is true exactly when time >= duration
\* (false below the duration, true at it), and once true it stays true at
\* every later step of the episode.
C2_Truncated ==
    /\ [](phase = "stepped" => (truncated <=> time >= config.duration))
    /\ [][(truncated /\ phase' = "stepped") => truncated']_vars

C2_Witness ==
    /\ phase = "stepped"
    /\ time = config.duration
    /\ truncated

\* C3: in the Fast variant, after any reset, every vehicle of the road that
\* is not a controlled vehicle has collision checking disabled, and every
\* controlled vehicle has it enabled.
C3_FastCollisionChecks ==
    (config.fast /\ HasReset) =>
        /\ \A v \in Range(road_vehicles) :
               v \notin Range(controlled_vehicles) => ~check_collisions(v)
        /\ \A v \in Range(controlled_vehicles) : check_collisions(v)

C3_Witness ==
    /\ config.fast
    /\ phase = "reset"
    /\ episode = 2
    /\ Len(controlled_vehicles) >= 2
    /\ \E v \in Range(road_vehicles) :
           v \notin Range(controlled_vehicles) /\ ~check_collisions(v)

\* C4: after one or more resets with controlled_vehicles >= 1, the controlled
\* list holds controlled_vehicles vehicles, the road holds controlled_vehicles
\* + vehicles_count vehicles, every controlled vehicle is on the road, and
\* no vehicle of an earlier reset is in either list.
C4_VehicleCounts ==
    (HasReset /\ config.controlled_vehicles >= 1) =>
        /\ Len(controlled_vehicles) = config.controlled_vehicles
        /\ Len(road_vehicles) = config.controlled_vehicles + config.vehicles_count
        /\ Cardinality(Range(road_vehicles)) = Len(road_vehicles)
        /\ Range(controlled_vehicles) \subseteq Range(road_vehicles)
        /\ \A v \in Range(road_vehicles) \cup Range(controlled_vehicles) :
               v.ep = episode

C4_Witness ==
    /\ phase = "reset"
    /\ episode = 2
    /\ config.controlled_vehicles = 2
    /\ config.vehicles_count = 3
    /\ Len(road_vehicles) = 5

CreatedInOrder ==
    LET calls == SelectSeq(rng_log, LAMBDA c : c[1] = "create_random")
    IN  [i \in DOMAIN calls |-> calls[i][2]]

\* C10 as stated: with two or more controlled vehicles, no traffic vehicle is
\* created before the last controlled vehicle, on the road's list and in the
\* generator's calls alike.
C10_EgosFirst ==
    (HasReset /\ config.controlled_vehicles >= 2) =>
        /\ \A i, j \in DOMAIN road_vehicles :
               i < j => ~(road_vehicles[i].cls = "other"
                          /\ road_vehicles[j].cls = "controlled")
        /\ \A i, j \in DOMAIN CreatedInOrder :
               i < j => ~(CreatedInOrder[i].cls = "other"
                          /\ CreatedInOrder[j].cls = "controlled")

\* C10, amended: the groups are built one after the other in group order,
\* each group's controlled vehicle first and then that group's traffic
\* vehicles; the generator is consumed in that order and the road's list
\* has the same order.
C10_GroupByGroup ==
    (HasReset /\ config.controlled_vehicles >= 2) =>
        /\ \A i, j \in DOMAIN road_vehicles :
               i < j => /\ road_vehicles[i].group <= road_vehicles[j].group
                        /\ road_vehicles[i].group = road_vehicles[j].group
                               => road_vehicles[j].cls = "other"
        /\ CreatedInOrder = road_vehicles
        /\ \A k \in DOMAIN rng_log :
               rng_log[k][1] = "randomize_behavior" =>
                   /\ k > 1
                   /\ rng_log[k - 1] = <<"create_random", rng_log[k][2]>>
                   /\ rng_log[k][2].cls = "other"

C10_Witness ==
    /\ phase = "reset"
    /\ config.controlled_vehicles >= 2
    /\ \E i, j \in DOMAIN road_vehicles :
           /\ i < j
           /\ road_vehicles[i].cls = "other"
           /\ road_vehicles[j].cls = "controlled"

-----------------------------------------------------------------------------
(* Properties of the reward evaluator *)

Returned == outcome.kind = "returned"

IsNumber(a) == ~IsNaN(a)
InUnit(a) == FLe(Num(0), a) /\ FLe(a, Num(1))

\* The five weighted terms, written out
SumOfFive(cfg, r) ==
    FAdd(FAdd(FAdd(FAdd(FMul(cfg.speed_reward, r.speed_reward),
                        FMul(cfg.collision_reward, r.collision_reward)),
                   FMul(cfg.safe_distance_reward, r.safe_distance_reward)),
              FMul(cfg.on_road_reward, r.on_road_reward)),
         FMul(cfg.torque_reward, r.torque_reward))

\* The breakdowns _rewards returns on the inputs of the model
Breakdowns ==
    {_rewards(o, cr, onr, default_config).rewards :
        <<o, cr, onr>> \in
            {x \in Observations \X BOOLEAN \X BOOLEAN :
                ~_rewards(x[1], x[2], x[3], default_config).raised}}

TermValues == [name \in Range(RewardNames) |-> {r[name] : r \in Breakdowns}]

\* C5: with normalize_reward set, the returned scalar is the weighted sum
\* rescaled linearly from [collision_reward, high_speed_reward +
\* right_lane_reward] onto [0, 1], and under the default configuration it
\* lies in [0, 1] whenever the five terms are numbers.
C5_NormalizedInUnit ==
    (/\ Returned
     /\ config.normalize_reward
     /\ \A name \in Range(RewardNames) : IsNumber(outcome.rewards[name])) =>
        /\ outcome.reward =
               lmap(SumOfFive(config, outcome.rewards),
                    <<config.collision_reward,
                      FAdd(config.high_speed_reward, config.right_lane_reward)>>,
                    <<Num(0), Num(1)>>)
        /\ config = default_config => InUnit(outcome.reward)

\* C6: with no front vehicle or no rear vehicle (and the ego moving),
\* _rewards does not raise, the absent neighbour's half of the safe-distance
\* term is its maximum 0.5, and safe_distance_reward is a number in [0, 1].
C6_AbsentNeighbour ==
    (/\ outcome.kind # "none"
     /\ ~IsZero(obs.speed)
     /\ ~obs.front.present \/ ~obs.rear.present) =>
        /\ Returned
        /\ ~obs.front.present => safe_distance_of(obs, config).front = Rat(1, 2)
        /\ ~obs.rear.present => safe_distance_of(obs, config).rear = Rat(1, 2)
        /\ IsNumber(outcome.rewards.safe_distance_reward)
        /\ InUnit(outcome.rewards.safe_distance_reward)

\* C7: at ego speed 0 (both neighbours present) the evaluation is defined:
\* nothing is raised, torque_reward is the number zero and the returned
\* reward is a number, also when the torque_reward weight is 0.
C7_ZeroSpeedDefined ==
    (/\ outcome.kind # "none"
     /\ IsZero(obs.speed)
     /\ obs.front.present /\ obs.rear.present) =>
        /\ Returned
        /\ IsZero(outcome.rewards.torque_reward)
        /\ IsNumber(outcome.reward)

\* C9: with normalize_reward off, the returned scalar is the sum over the
\* five terms of weight times breakdown value, and a term of weight 0
\* contributes nothing: any other value _rewards can give that term leaves
\* the sum unchanged.
C9_WeightedSum ==
    (Returned /\ ~config.normalize_reward) =>
        /\ outcome.reward = SumOfFive(config, outcome.rewards)
        /\ \A name \in Range(RewardNames) :
               IsZero(config[name]) =>
                   \A b \in TermValues[name] :
                       SumOfFive(config, [outcome.rewards EXCEPT ![name] = b])
                           = outcome.reward

====
